---------------------------- MODULE Spec2Model ----------------------------
(***************************************************************************)
(* Model of the license-u browser-extension popup: the settings store      *)
(* (stores/settingsStore.ts), the active-tab query and URL split           *)
(* (utils/chrome-tabs.ts), the environment buttons                         *)
(* (components/common/shobibuttons.tsx, ShobiButtons) and the file section *)
(* and container (components/AppContainer.tsx).                            *)
(*                                                                         *)
(* JavaScript strings are sequences of one-character strings, so that      *)
(* indexOf, substring, endsWith, trim and replace act on positions exactly *)
(* as the code does.  Indices in operator arguments are 0-based, as in the *)
(* source; the sequences themselves are 1-based.                           *)
(***************************************************************************)
EXTENDS Integers, Sequences, FiniteSets, Bags, TLC

VARIABLES
    LocalUrl,                  \* settingsStore: LocalUrl
    ProjectBasePath,           \* settingsStore: ProjectBasePath
    PreferredEditor,           \* settingsStore: PreferredEditor
    IsLoading,                 \* settingsStore: IsLoading
    ErrorMessage,              \* settingsStore: ErrorMessage ("null" or a message tag)
    storage,                   \* chrome.storage.local: the three persisted keys
    loadsInFlight,             \* LoadSettings calls awaiting chrome.storage.local.get
    mounted,                   \* AppContainer has mounted (its effect has run)
    currentView,               \* AppContainer: currentView
    result,                    \* AppContainer: result (the displayed message)
    isConfirmationModalOpen,   \* AppContainer: isConfirmationModalOpen
    chains,                    \* bag of click chains awaiting chrome.tabs.query
    step,                      \* the handler that ran last, with its inputs
    effects,                   \* browser side effects issued by that handler
    saves,                     \* Save* calls awaiting chrome.storage.local.set
    successMessage             \* SettingsPage: the success message is shown

vars == <<LocalUrl, ProjectBasePath, PreferredEditor, IsLoading, ErrorMessage,
          storage, loadsInFlight, mounted, currentView, result,
          isConfirmationModalOpen, chains, step, effects, saves,
          successMessage>>

storeVars == <<LocalUrl, ProjectBasePath, PreferredEditor, IsLoading, ErrorMessage>>

(***************************************************************************)
(* Bounds                                                                  *)
(***************************************************************************)
MaxChains == 1

MaxLoads == 1

MaxOverlap == 2

(***************************************************************************)
(* String literals of the source                                           *)
(***************************************************************************)
NdHost == <<"n", "d", ".", "w", "w", "w", ".", "s", "h", "o", "b", "i", "-", "u", ".", "l", "i", "c", "e", "n", "s", "e", "a", "c", "a", "d", "e", "m", "y", ".", "j", "p", "/">>

TestHost == <<"t", "e", "s", "t", ".", "s", "h", "o", "b", "i", "-", "u", ".", "a", "c", ".", "j", "p", "/">>

ProdHost == <<"w", "w", "w", ".", "s", "h", "o", "b", "i", "-", "u", ".", "a", "c", ".", "j", "p", "/">>

LocalhostHost == <<"l", "o", "c", "a", "l", "h", "o", "s", "t", "/">>

UnknownHost_Localhost == <<"l", "o", "c", "a", "l", "h", "o", "s", "t", "/">>

UnknownHost == <<"u", "n", "k", "n", "o", "w", "n", "/">>

Http == <<"h", "t", "t", "p">>

Https == <<"h", "t", "t", "p", "s">>

SchemeSep == <<":", "/", "/">>

ViewsDir == <<"\\", "_", "v", "i", "e", "w", "s", "\\">>
ErrorTpl_NoViews == <<"\\", "e", "r", "r", "o", "r", ".", "t", "p", "l">>

ErrorTpl == <<"\\", "_", "v", "i", "e", "w", "s", "\\", "e", "r", "r", "o", "r", ".", "t", "p", "l">>

TplExt_None == <<>>

TplExt == <<".", "t", "p", "l">>

VsCodeScheme == <<"v", "s", "c", "o", "d", "e", ":", "/", "/", "f", "i", "l", "e", "/">>

CursorScheme == <<"c", "u", "r", "s", "o", "r", ":", "/", "/", "f", "i", "l", "e", "/">>

UrlAB == <<"h", "t", "t", "p", "s", ":", "/", "/", "e", "x", "a", "m", "p", "l", "e", ".", "c", "o", "m", "/", "a", "/", "b">>

UrlBare == <<"h", "t", "t", "p", "s", ":", "/", "/", "e", "x", "a", "m", "p", "l", "e", ".", "c", "o", "m">>

UrlDouble == <<"h", "t", "t", "p", "s", ":", "/", "/", "e", "x", "a", "m", "p", "l", "e", ".", "c", "o", "m", "/", "/", "a">>

UrlHttp == <<"h", "t", "t", "p", ":", "/", "/", "a", "/", "b", "/", "c">>

UrlFtp == <<"f", "t", "p", ":", "/", "/", "a", "/", "b", "c", "/", "d">>

UrlMalformed == <<"a", "b", "c">>

UrlHtml == <<"h", "t", "t", "p", "s", ":", "/", "/", "x", ".", "c", "o", "m", "/", "a", "/", "b", ".", "h", "t", "m", "l">>

UrlDotDir == <<"h", "t", "t", "p", "s", ":", "/", "/", "x", ".", "c", "o", "m", "/", "v", "1", ".", "2", "/", "p", "a", "g", "e">>

UrlDir == <<"h", "t", "t", "p", "s", ":", "/", "/", "x", ".", "c", "o", "m", "/", "a", "/">>

LocalPlain == <<"a", ".", "l", "o", "c", "a", "l", "h", "o", "s", "t">>

LocalLeadingSpace == <<" ", "a", ".", "l", "o", "c", "a", "l", "h", "o", "s", "t">>

LocalTrailingSlash == <<"a", ".", "l", "o", "c", "a", "l", "h", "o", "s", "t", "/">>

Blank == <<" ">>

PathPlain == <<"C", ":", "\\", "p", "_", "a", "p", "p">>

PathDotted == <<"C", ":", "\\", "p", ".", "v", "_", "a", "p", "p">>

(***************************************************************************)
(* JavaScript string built-ins used by the source                          *)
(***************************************************************************)
\* String.prototype.indexOf(c, from): 0-based index of the first c at or
\* after from, -1 when there is none.
IndexOf(s, c, from) ==
    LET hits == {i \in from..(Len(s) - 1) : s[i + 1] = c}
    IN  IF hits = {} THEN -1
        ELSE CHOOSE i \in hits : \A j \in hits : i <= j

\* String.prototype.lastIndexOf(c)
LastIndexOf(s, c) ==
    LET hits == {i \in 0..(Len(s) - 1) : s[i + 1] = c}
    IN  IF hits = {} THEN -1
        ELSE CHOOSE i \in hits : \A j \in hits : j <= i

\* String.prototype.substring(a, b) and substring(a)
Substring(s, a, b) == SubSeq(s, a + 1, b)

SubstringFrom(s, a) == SubSeq(s, a + 1, Len(s))

\* String.prototype.endsWith(c) for a one-character c
EndsWith(s, c) == Len(s) > 0 /\ s[Len(s)] = c

\* String.prototype.startsWith(p)
StartsWith(s, p) == Len(s) >= Len(p) /\ SubSeq(s, 1, Len(p)) = p

\* String.prototype.trim(): strips leading and trailing white space
Trim(s) ==
    LET ns == {i \in 1..Len(s) : s[i] # " "}
    IN  IF ns = {} THEN <<>>
        ELSE SubSeq(s, CHOOSE i \in ns : \A j \in ns : i <= j,
                       CHOOSE i \in ns : \A j \in ns : j <= i)

\* String.prototype.replace(/a/g, b) for one-character a and b
ReplaceAll(s, a, b) == [i \in 1..Len(s) |-> IF s[i] = a THEN b ELSE s[i]]

(***************************************************************************)
(* utils/chrome-tabs.ts: the split of the active-tab URL                    *)
(***************************************************************************)
\* the search starts right after the 8 characters of 'https://'
SearchOffset == 8

\* a search that starts one character late
SlashIndex_Offset9(OriginalUrl) == IndexOf(OriginalUrl, "/", SearchOffset + 1)

SlashIndex(OriginalUrl) == IndexOf(OriginalUrl, "/", SearchOffset)

\* the split without the test for a missing '/'
UrlParts_NoMissCheck(OriginalUrl) ==
    <<Substring(OriginalUrl, 0, SlashIndex(OriginalUrl)),
      SubstringFrom(OriginalUrl, SlashIndex(OriginalUrl) + 1)>>

UrlParts(OriginalUrl) ==
    IF SlashIndex(OriginalUrl) = -1
    THEN <<OriginalUrl, <<>>>>
    ELSE <<Substring(OriginalUrl, 0, SlashIndex(OriginalUrl)),
           SubstringFrom(OriginalUrl, SlashIndex(OriginalUrl) + 1)>>

ProcessedUrlPart(OriginalUrl) == UrlParts(OriginalUrl)[2]

(***************************************************************************)
(* ShobiButtons.HandleUrlProcessing: the environment URL                   *)
(* Button types: "LOCAL" is the source's 'ローカル', "HONBAN" its '本番'.  *)
(***************************************************************************)
BaseUrl(ButtonType, localUrl) ==
    CASE ButtonType = "ND"     -> NdHost
      [] ButtonType = "TEST"   -> TestHost
      [] ButtonType = "HONBAN" -> ProdHost
      [] ButtonType = "LOCAL"  ->
            IF localUrl # <<>> THEN localUrl \o <<"/">> ELSE LocalhostHost
      [] OTHER                 -> UnknownHost

NormalizedBaseUrl(base) ==
    IF EndsWith(base, "/") THEN base ELSE base \o <<"/">>

\* the protocol without the special case of ND and LOCAL
Protocol_AlwaysHttps(ButtonType) == Https

Protocol(ButtonType) ==
    IF ButtonType = "ND" \/ ButtonType = "LOCAL" THEN Http ELSE Https

DisplayUrl(ButtonType, localUrl, part) ==
    NormalizedBaseUrl(BaseUrl(ButtonType, localUrl)) \o part

FullUrl(ButtonType, localUrl, part) ==
    Protocol(ButtonType) \o SchemeSep \o DisplayUrl(ButtonType, localUrl, part)

\* the emptiness test without trim()
LocalUrlNotSet_NoTrim(localUrl) == localUrl = <<>>

\* HandleLocalButtonClick: !LocalUrl || LocalUrl.trim() === ''
LocalUrlNotSet(localUrl) == localUrl = <<>> \/ Trim(localUrl) = <<>>

(***************************************************************************)
(* FileSection: URL to local file path, editor dispatch                    *)
(***************************************************************************)
SchemeChars ==
    {"a", "b", "c", "d", "e", "f", "g", "h", "i", "j", "k", "l", "m",
     "n", "o", "p", "q", "r", "s", "t", "u", "v", "w", "x", "y", "z"}

\* 0-based index of the first character of s, at or after from, that is in
\* stops; Len(s) when there is none.
FirstOf(s, stops, from) ==
    LET hits == {i \in from..(Len(s) - 1) : s[i + 1] \in stops}
    IN  IF hits = {} THEN Len(s)
        ELSE CHOOSE i \in hits : \A j \in hits : i <= j

\* new URL(url) for hierarchical URLs 'scheme://host[/path][?query][#frag]':
\* ok is FALSE where the constructor throws (no scheme, no '//' authority,
\* empty host); pathname is the path without query and fragment, '/' when
\* the path is empty.  Percent-encoding and dot-segment removal are not
\* modelled; no URL of the model contains a character or segment they touch.
ParseUrl(url) ==
    LET colon   == IndexOf(url, ":", 0)
        hostAt  == colon + 3
        hostEnd == FirstOf(url, {"/", "?", "#"}, hostAt)
        pathEnd == FirstOf(url, {"?", "#"}, hostEnd)
        path    == Substring(url, hostEnd, pathEnd)
        ok      == /\ colon >= 1
                   /\ \A i \in 1..colon : url[i] \in SchemeChars
                   /\ Len(url) >= hostAt
                   /\ Substring(url, colon + 1, hostAt) = <<"/", "/">>
                   /\ hostEnd > hostAt
    IN  [ok |-> ok,
         pathname |-> IF ~ok THEN <<>> ELSE IF path = <<>> THEN <<"/">> ELSE path]

\* filePath.replace(/\.[^.]*$/, ''): drops the text from the last '.' of the
\* whole string to its end; unchanged when the string has no '.'.
StripExtension(filePath) ==
    IF LastIndexOf(filePath, ".") = -1 THEN filePath
    ELSE Substring(filePath, 0, LastIndexOf(filePath, "."))

MapUrlToFilePath(url, projectBasePath) ==
    IF ~ParseUrl(url).ok
    THEN projectBasePath \o ErrorTpl
    ELSE LET pathname  == ParseUrl(url).pathname
             cleanPath == IF StartsWith(pathname, <<"/">>)
                          THEN SubstringFrom(pathname, 1) ELSE pathname
             filePath  == projectBasePath \o ViewsDir
                              \o ReplaceAll(cleanPath, "/", "\\")
         IN  StripExtension(filePath) \o TplExt

\* the configuration test without trim()
ProjectBasePathNotSet_NoTrim(projectBasePath) == projectBasePath = <<>>

\* HandleOpenFileClick: !ProjectBasePath || ProjectBasePath.trim() === ''
ProjectBasePathNotSet(projectBasePath) ==
    projectBasePath = <<>> \/ Trim(projectBasePath) = <<>>

\* the URI without the replacement of backslashes
EditorUri_Raw(editor, filePath) ==
    (IF editor = "vscode" THEN VsCodeScheme ELSE CursorScheme) \o filePath

\* the URI OpenFileInEditor navigates to for 'vscode' and 'cursor'
EditorUri(editor, filePath) ==
    (IF editor = "vscode" THEN VsCodeScheme ELSE CursorScheme)
        \o ReplaceAll(filePath, "\\", "/")
(***************************************************************************)
(* Inputs                                                                  *)
(***************************************************************************)
\* active-tab URLs the browser may report
Urls == {UrlAB, UrlBare, UrlDouble, UrlHttp, UrlFtp, UrlMalformed,
         UrlHtml, UrlDotDir, UrlDir}

\* outcomes of chrome.tabs.query: a rejection, no tab, a tab without url
\* (undefined), or a tab with a url string, possibly ''
NoResponse == [kind |-> "none", url |-> <<>>]

Responses ==
    {[kind |-> k, url |-> <<>>] : k \in {"rejected", "noTabs", "noUrl"}}
        \cup {[kind |-> "url", url |-> u] : u \in Urls \cup {<<>>}}

EnvButtons == {"LOCAL", "ND", "TEST", "HONBAN"}

Key(present, value) == [present |-> present, value |-> value]

\* contents of chrome.storage.local left by earlier sessions; LoadSettings
\* copies whatever is persisted, without validation
StoredSettings ==
    { [LocalUrl        |-> Key(FALSE, <<>>),
       ProjectBasePath |-> Key(TRUE, <<>>),
       PreferredEditor |-> Key(FALSE, "")],
      [LocalUrl        |-> Key(TRUE, LocalPlain),
       ProjectBasePath |-> Key(TRUE, PathPlain),
       PreferredEditor |-> Key(TRUE, "vscode")],
      [LocalUrl        |-> Key(TRUE, LocalLeadingSpace),
       ProjectBasePath |-> Key(TRUE, PathDotted),
       PreferredEditor |-> Key(TRUE, "cursor")],
      [LocalUrl        |-> Key(TRUE, LocalTrailingSlash),
       ProjectBasePath |-> Key(TRUE, PathPlain),
       PreferredEditor |-> Key(TRUE, "dreamweaver")],
      [LocalUrl        |-> Key(TRUE, Blank),
       ProjectBasePath |-> Key(TRUE, PathPlain),
       PreferredEditor |-> Key(TRUE, "sublime")],
      [LocalUrl        |-> Key(TRUE, <<>>),
       ProjectBasePath |-> Key(TRUE, Blank),
       PreferredEditor |-> Key(TRUE, "")] }

(***************************************************************************)
(* Messages shown in the result area, and records of what a handler did    *)
(***************************************************************************)
\* kind names the fixed text of the message, arg the URL or path embedded
\* in it, button the button type embedded in it
Message(kind, arg, button) == [kind |-> kind, arg |-> arg, button |-> button]

NoEffects ==
    [queried |-> FALSE, created |-> <<>>, copied |-> <<>>, alerted |-> FALSE]

NoSnap == [LocalUrl |-> <<>>, ProjectBasePath |-> <<>>, PreferredEditor |-> ""]

\* a chain that carries none of the settings
Snap_NoSettings(ButtonType) == NoSnap

\* the store values the rest of a chain reads from the closures of the
\* render that started it: LocalUrl in the 'ローカル' branch of
\* ShobiButtons.HandleUrlProcessing, ProjectBasePath and PreferredEditor in
\* FileSection
Snap(ButtonType) ==
    CASE ButtonType = "file" ->
            [LocalUrl |-> <<>>, ProjectBasePath |-> ProjectBasePath,
             PreferredEditor |-> PreferredEditor]
      [] ButtonType = "LOCAL" ->
            [LocalUrl |-> LocalUrl, ProjectBasePath |-> <<>>,
             PreferredEditor |-> ""]
      [] OTHER -> NoSnap

Step(op, button, response, createThrows, snap) ==
    [op |-> op, button |-> button, response |-> response,
     createThrows |-> createThrows, snap |-> snap]

Ran(op) == Step(op, "", NoResponse, FALSE, NoSnap)

(***************************************************************************)
(* Initial state: the store as created, the popup not yet mounted          *)
(***************************************************************************)
Init ==
    /\ LocalUrl = <<>>
    /\ ProjectBasePath = <<>>
    /\ PreferredEditor = "vscode"
    /\ IsLoading = FALSE
    /\ ErrorMessage = "null"
    /\ storage \in StoredSettings
    /\ loadsInFlight = 0
    /\ mounted = FALSE
    /\ currentView = "main"
    /\ result = Message("initial", <<>>, "")
    /\ isConfirmationModalOpen = FALSE
    /\ chains = EmptyBag
    /\ step = Ran("create")
    /\ effects = NoEffects
    /\ saves = EmptyBag
    /\ successMessage = FALSE

(***************************************************************************)
(* settingsStore.ts: LoadSettings                                          *)
(***************************************************************************)

\* a fallback for absent keys only
OrElse_PresentOnly(key, empty, fallback) ==
    IF key.present THEN key.value ELSE fallback

\* value || fallback
OrElse(key, empty, fallback) ==
    IF key.present /\ key.value # empty THEN key.value ELSE fallback

\* LoadSettings up to its await: set({IsLoading: true, ErrorMessage: null})
LoadSettingsStart ==
    /\ IsLoading' = TRUE
    /\ ErrorMessage' = "null"
    /\ loadsInFlight' = loadsInFlight + 1
    /\ UNCHANGED <<LocalUrl, ProjectBasePath, PreferredEditor, storage, saves,
                   successMessage>>

\* chrome.storage.local.get resolves
LoadSettingsResolved ==
    /\ loadsInFlight > 0
    /\ loadsInFlight' = loadsInFlight - 1
    /\ LocalUrl' = OrElse(storage.LocalUrl, <<>>, <<>>)
    /\ ProjectBasePath' = OrElse(storage.ProjectBasePath, <<>>, <<>>)
    /\ PreferredEditor' = OrElse(storage.PreferredEditor, "", "vscode")
    /\ IsLoading' = FALSE
    /\ step' = Ran("LoadSettingsResolved")
    /\ effects' = NoEffects
    /\ UNCHANGED <<ErrorMessage, storage, saves, successMessage, mounted,
                   currentView, result, isConfirmationModalOpen, chains>>

\* a catch block that also puts the defaults back
LoadSettingsRejected_ResetsValues ==
    /\ loadsInFlight > 0
    /\ loadsInFlight' = loadsInFlight - 1
    /\ LocalUrl' = <<>>
    /\ ProjectBasePath' = <<>>
    /\ PreferredEditor' = "vscode"
    /\ ErrorMessage' = "loadFailed"
    /\ IsLoading' = FALSE
    /\ step' = Ran("LoadSettingsRejected")
    /\ effects' = NoEffects
    /\ UNCHANGED <<storage, saves, successMessage, mounted, currentView,
                   result, isConfirmationModalOpen, chains>>

\* chrome.storage.local.get rejects
LoadSettingsRejected ==
    /\ loadsInFlight > 0
    /\ loadsInFlight' = loadsInFlight - 1
    /\ ErrorMessage' = "loadFailed"
    /\ IsLoading' = FALSE
    /\ step' = Ran("LoadSettingsRejected")
    /\ effects' = NoEffects
    /\ UNCHANGED <<LocalUrl, ProjectBasePath, PreferredEditor, storage, saves,
                   successMessage, mounted, currentView, result,
                   isConfirmationModalOpen, chains>>

(***************************************************************************)
(* settingsStore.ts: the setters, the Save* functions, ClearError          *)
(***************************************************************************)
SettingsKeys == {"LocalUrl", "ProjectBasePath", "PreferredEditor"}

SaveOps ==
    {"SaveSettings", "SaveLocalUrl", "SaveProjectBasePath", "SavePreferredEditor"}

\* what chrome.storage.local.set can reject with: an Error whose message
\* contains 'permissions', one whose message contains 'quota', another
\* Error, a value that is not an Error
StorageErrors == {"permissions", "quota", "other", "notAnError"}

\* the values get() returns
Current ==
    [LocalUrl |-> LocalUrl, ProjectBasePath |-> ProjectBasePath,
     PreferredEditor |-> PreferredEditor]

\* every Save* passing the whole settings object
SaveData_AllKeys(op, state) == state

\* the object a Save* function passes to chrome.storage.local.set
SaveData(op, state) ==
    CASE op = "SaveSettings" -> state
      [] op = "SaveLocalUrl" -> [k \in {"LocalUrl"} |-> state[k]]
      [] op = "SaveProjectBasePath" -> [k \in {"ProjectBasePath"} |-> state[k]]
      [] op = "SavePreferredEditor" -> [k \in {"PreferredEditor"} |-> state[k]]

\* the ErrorMessage the catch block of a Save* function sets
SaveError(op, error) ==
    CASE op = "SaveSettings" ->
            (CASE error = "permissions" -> "savePermissions"
               [] error = "quota" -> "saveQuota"
               [] error = "other" -> "saveErrorWithText"
               [] OTHER -> "saveFailed")
      [] op = "SaveLocalUrl" -> "localUrlSaveFailed"
      [] op = "SaveProjectBasePath" -> "projectBasePathSaveFailed"
      [] op = "SavePreferredEditor" -> "preferredEditorSaveFailed"

\* a Save* function up to its await: set({IsLoading: true, ErrorMessage:
\* null}), then get(), then the call of chrome.storage.local.set.  state is
\* what get() returns; submit says that OnSubmit of the mounted SettingsPage
\* awaits the call.
SaveStart(op, state, submit) ==
    /\ IsLoading' = TRUE
    /\ ErrorMessage' = "null"
    /\ saves' = saves (+) SetToBag({[op |-> op, data |-> SaveData(op, state),
                                     submit |-> submit]})
    /\ UNCHANGED <<storage, loadsInFlight>>

\* chrome.storage.local after set(data): the keys of data replaced
Stored(data) ==
    [k \in SettingsKeys |->
        IF k \in DOMAIN data THEN Key(TRUE, data[k]) ELSE storage[k]]

\* the step record of a settled Save* call
Settled(op, save) ==
    Step(op, save.op,
         [kind |-> IF save.submit THEN "submit" ELSE "call", url |-> <<>>],
         FALSE, save.data)

\* chrome.storage.local.set of a waiting Save* call resolves: the write is
\* taken to happen at this point.  When OnSubmit awaits the call it goes on
\* to setSuccessMessage.
SaveResolved(save) ==
    /\ BagIn(save, saves)
    /\ saves' = saves (-) SetToBag({save})
    /\ storage' = Stored(save.data)
    /\ IsLoading' = FALSE
    /\ successMessage' = (save.submit \/ successMessage)
    /\ step' = Settled("SaveResolved", save)
    /\ effects' = NoEffects
    /\ UNCHANGED <<LocalUrl, ProjectBasePath, PreferredEditor, ErrorMessage,
                   loadsInFlight, mounted, currentView, result,
                   isConfirmationModalOpen, chains>>

\* chrome.storage.local.set of a waiting Save* call rejects: nothing is
\* written and the catch block of the Save* function sets ErrorMessage.  The
\* function does not rethrow: the promise OnSubmit awaits is fulfilled and
\* OnSubmit goes on to setSuccessMessage.
SaveRejected(save, error) ==
    /\ BagIn(save, saves)
    /\ saves' = saves (-) SetToBag({save})
    /\ ErrorMessage' = SaveError(save.op, error)
    /\ IsLoading' = FALSE
    /\ successMessage' = (save.submit \/ successMessage)
    /\ step' = Settled("SaveRejected", save)
    /\ effects' = NoEffects
    /\ UNCHANGED <<LocalUrl, ProjectBasePath, PreferredEditor, storage,
                   loadsInFlight, mounted, currentView, result,
                   isConfirmationModalOpen, chains>>

\* the waiting Save* calls once the SettingsPage that awaited them has
\* unmounted: its state setters no longer have an effect
Detached(waiting) ==
    LET detach(save) == [save EXCEPT !.submit = FALSE]
    IN  BagOfAll(detach, waiting)

(***************************************************************************)
(* AppContainer                                                            *)
(***************************************************************************)
\* first render: the effect calls LoadSettings
Mount ==
    /\ ~mounted
    /\ mounted' = TRUE
    /\ LoadSettingsStart
    /\ step' = Ran("Mount")
    /\ effects' = NoEffects
    /\ UNCHANGED <<currentView, result, isConfirmationModalOpen, chains>>

\* HandleSettingsClick; SettingsPage mounts and its effect calls LoadSettings
HandleSettingsClick ==
    /\ mounted
    /\ currentView = "main"
    /\ currentView' = "settings"
    /\ LoadSettingsStart
    /\ step' = Ran("HandleSettingsClick")
    /\ effects' = NoEffects
    /\ UNCHANGED <<mounted, result, isConfirmationModalOpen, chains>>

\* HandleBackToMain; SettingsPage unmounts
HandleBackToMain ==
    /\ mounted
    /\ currentView = "settings"
    /\ currentView' = "main"
    /\ saves' = Detached(saves)
    /\ successMessage' = FALSE
    /\ step' = Ran("HandleBackToMain")
    /\ effects' = NoEffects
    /\ UNCHANGED <<storeVars, storage, loadsInFlight, mounted, result,
                   isConfirmationModalOpen, chains>>

\* ConfirmationModal.HandleConfirm: OnConfirm() then OnClose()
HandleConfirm ==
    /\ mounted
    /\ currentView = "main"
    /\ isConfirmationModalOpen
    /\ currentView' = "settings"
    /\ isConfirmationModalOpen' = FALSE
    /\ LoadSettingsStart
    /\ step' = Ran("HandleConfirm")
    /\ effects' = NoEffects
    /\ UNCHANGED <<mounted, result, chains>>

\* ConfirmationModal.HandleCancel: OnClose()
HandleCancel ==
    /\ mounted
    /\ currentView = "main"
    /\ isConfirmationModalOpen
    /\ isConfirmationModalOpen' = FALSE
    /\ step' = Ran("HandleCancel")
    /\ effects' = NoEffects
    /\ UNCHANGED <<storeVars, storage, saves, successMessage, loadsInFlight,
                   mounted, currentView, result, chains>>
(***************************************************************************)
(* Click handlers up to their await of chrome.tabs.query                   *)
(***************************************************************************)
\* GetCurrentTabUrl up to its await.  apiPresent is the test chrome?.tabs:
\* when it fails the function throws and the catch block of the calling
\* handler shows errorMessage; otherwise the query is issued and the chain
\* waits with the values its closures captured.  Nothing in the handlers
\* keeps a click from starting a chain while another one waits.
StartChain(op, ButtonType, apiPresent, loadingMessage, errorMessage, alerts) ==
    IF apiPresent
    THEN /\ chains' = chains (+) SetToBag({[button |-> ButtonType,
                                            snap |-> Snap(ButtonType)]})
         /\ result' = loadingMessage
         /\ effects' = [NoEffects EXCEPT !.queried = TRUE]
         /\ step' = Step(op, ButtonType, NoResponse, FALSE, NoSnap)
    ELSE /\ chains' = chains
         /\ result' = errorMessage
         /\ effects' = [NoEffects EXCEPT !.alerted = alerts]
         /\ step' = Step(op, ButtonType,
                         [kind |-> "apiAbsent", url |-> <<>>], FALSE, NoSnap)

\* ShobiButtons.HandleButtonClick
HandleButtonClick(ButtonType, apiPresent) ==
    /\ mounted
    /\ currentView = "main"
    /\ StartChain("HandleButtonClick", ButtonType, apiPresent,
                  Message("urlLoading", <<>>, ""),
                  Message("buttonError", <<>>, ButtonType), TRUE)
    /\ UNCHANGED <<storeVars, storage, saves, successMessage, loadsInFlight,
                   mounted, currentView, isConfirmationModalOpen>>

\* ShobiButtons.HandleLocalButtonClick
HandleLocalButtonClick(apiPresent) ==
    IF LocalUrlNotSet(LocalUrl)
    THEN /\ mounted
         /\ currentView = "main"
         /\ apiPresent
         /\ isConfirmationModalOpen' = TRUE
         /\ step' = Ran("HandleLocalButtonClick")
         /\ effects' = NoEffects
         /\ UNCHANGED <<storeVars, storage, saves, successMessage,
                        loadsInFlight, mounted, currentView, result, chains>>
    ELSE HandleButtonClick("LOCAL", apiPresent)

\* FileSection.HandleOpenFileClick.  The rendered button is disabled under the
\* same test as the handler's first branch; the handler is modelled as it
\* is written, callable in every state of the main view.
HandleOpenFileClick(apiPresent) ==
    /\ mounted
    /\ currentView = "main"
    /\ IF ProjectBasePathNotSet(ProjectBasePath)
       THEN /\ apiPresent
            /\ result' = Message("noBasePath", <<>>, "")
            /\ chains' = chains
            /\ effects' = NoEffects
            /\ step' = Ran("HandleOpenFileClick")
       ELSE StartChain("HandleOpenFileClick", "file", apiPresent,
                       Message("fileLoading", <<>>, ""),
                       Message("fileError", <<>>, "file"), FALSE)
    /\ UNCHANGED <<storeVars, storage, saves, successMessage, loadsInFlight,
                   mounted, currentView, isConfirmationModalOpen>>

(***************************************************************************)
(* The rest of a chain, run when chrome.tabs.query settles                 *)
(***************************************************************************)

\* the test without !OriginalUrl
TabUrlMissing_NoUrlTest(response) == response.kind # "url"

\* GetCurrentTabUrl throws: rejected query, !Tabs || Tabs.length === 0,
\* or !OriginalUrl
TabUrlMissing(response) == response.kind # "url" \/ response.url = <<>>

Outcome(message, created, copied, alerted) ==
    [result |-> message,
     effects |-> [queried |-> FALSE, created |-> created, copied |-> copied,
                  alerted |-> alerted]]

\* the callback writing the clipboard before it creates the tab
EnvOutcome_CopyFirst(ButtonType, snap, response, createThrows) ==
    IF TabUrlMissing(response)
    THEN Outcome(Message("buttonError", <<>>, ButtonType), <<>>, <<>>, TRUE)
    ELSE LET url == FullUrl(ButtonType, snap.LocalUrl,
                            ProcessedUrlPart(response.url))
         IN  IF createThrows
             THEN Outcome(Message("failed", url, ""), <<url>>, <<url>>, FALSE)
             ELSE Outcome(Message("opened", url, ""), <<url>>, <<url>>, FALSE)

\* ShobiButtons.HandleUrlProcessing as the callback of GetCurrentTabUrl,
\* and the catch block of HandleButtonClick
EnvOutcome(ButtonType, snap, response, createThrows) ==
    IF TabUrlMissing(response)
    THEN Outcome(Message("buttonError", <<>>, ButtonType), <<>>, <<>>, TRUE)
    ELSE LET url == FullUrl(ButtonType, snap.LocalUrl,
                            ProcessedUrlPart(response.url))
         IN  IF createThrows
             THEN Outcome(Message("failed", url, ""), <<url>>, <<>>, FALSE)
             ELSE Outcome(Message("opened", url, ""), <<url>>, <<url>>, FALSE)

\* a dispatch that copies the path whatever the editor is
OpenFileInEditor_CopyByDefault(editor, filePath, createThrows) ==
    Outcome(Message("pathCopied", filePath, ""), <<>>, <<filePath>>, FALSE)

\* FileSection.OpenFileInEditor
OpenFileInEditor(editor, filePath, createThrows) ==
    CASE editor \in {"vscode", "cursor"} ->
            IF createThrows
            THEN Outcome(Message("fileError", <<>>, "file"),
                         <<EditorUri(editor, filePath)>>, <<>>, FALSE)
            ELSE Outcome(Message(IF editor = "vscode" THEN "vscodeOpened"
                                                      ELSE "cursorOpened",
                                 filePath, ""),
                         <<EditorUri(editor, filePath)>>, <<>>, FALSE)
      [] editor = "dreamweaver" ->
            Outcome(Message("pathCopied", filePath, ""),
                    <<>>, <<filePath>>, FALSE)
      [] OTHER ->
            Outcome(Message("unsupportedEditor", <<>>, editor),
                    <<>>, <<>>, FALSE)

\* the callback handing the editor a path with forward slashes
FileOutcome_ForwardSlashes(snap, response, createThrows) ==
    IF TabUrlMissing(response)
    THEN Outcome(Message("fileError", <<>>, "file"), <<>>, <<>>, FALSE)
    ELSE OpenFileInEditor(snap.PreferredEditor,
                          ReplaceAll(MapUrlToFilePath(response.url,
                                                      snap.ProjectBasePath),
                                     "\\", "/"),
                          createThrows)

\* FileSection.HandleUrlProcessing as the callback of GetCurrentTabUrl, and
\* the catch block of HandleOpenFileClick
FileOutcome(snap, response, createThrows) ==
    IF TabUrlMissing(response)
    THEN Outcome(Message("fileError", <<>>, "file"), <<>>, <<>>, FALSE)
    ELSE OpenFileInEditor(snap.PreferredEditor,
                          MapUrlToFilePath(response.url, snap.ProjectBasePath),
                          createThrows)

\* chrome.tabs.create is reached by the chain
CreateCalled(chain, response) ==
    /\ ~TabUrlMissing(response)
    /\ chain.button = "file" => chain.snap.PreferredEditor \in {"vscode", "cursor"}

\* the values the store fields can hold: the initial ones and the persisted
StoreLocalUrls == {<<>>} \cup {st.LocalUrl.value : st \in StoredSettings}

StorePaths == {<<>>} \cup {st.ProjectBasePath.value : st \in StoredSettings}

StoreEditors == {"vscode"} \cup {st.PreferredEditor.value : st \in StoredSettings}

\* the chains a click can start
ChainValues ==
    {[button |-> b, snap |-> NoSnap] : b \in EnvButtons \ {"LOCAL"}}
    \cup
    {[button |-> "LOCAL",
      snap |-> [LocalUrl |-> l, ProjectBasePath |-> <<>>, PreferredEditor |-> ""]] :
        l \in StoreLocalUrls}
    \cup
    {[button |-> "file",
      snap |-> [LocalUrl |-> <<>>, ProjectBasePath |-> p, PreferredEditor |-> e]] :
        p \in StorePaths, e \in StoreEditors}

\* what the rest of a chain does, tabulated over chains and inputs (the
\* table is evaluated once instead of at every step)
ChainOutcome ==
    [chain \in ChainValues, response \in Responses, createThrows \in BOOLEAN |->
        IF chain.button = "file"
        THEN FileOutcome(chain.snap, response, createThrows)
        ELSE EnvOutcome(chain.button, chain.snap, response, createThrows)]

\* chrome.tabs.query of a waiting chain settles with response;
\* createThrows says whether chrome.tabs.create throws when the chain calls it
TabQueryReturns(chain, response, createThrows) ==
    /\ BagIn(chain, chains)
    /\ createThrows => CreateCalled(chain, response)
    /\ result' = ChainOutcome[chain, response, createThrows].result
    /\ effects' = ChainOutcome[chain, response, createThrows].effects
    /\ step' = Step("TabQueryReturns", chain.button, response, createThrows,
                    chain.snap)
    /\ chains' = chains (-) SetToBag({chain})
    /\ UNCHANGED <<storeVars, storage, saves, successMessage, loadsInFlight,
                   mounted, currentView, isConfirmationModalOpen>>

(***************************************************************************)
(* Specification                                                           *)
(***************************************************************************)
\* the step leaves at most limit chains waiting: the cap of the model on the
\* number of clicks made while chrome.tabs.query is pending
Within(limit) == BagCardinality(chains') <= limit

\* the step leaves at most limit LoadSettings calls in flight
LoadsWithin(limit) == loadsInFlight' <= limit

Next ==
    \/ Mount /\ LoadsWithin(MaxLoads)
    \/ LoadSettingsResolved
    \/ LoadSettingsRejected
    \/ HandleSettingsClick /\ LoadsWithin(MaxLoads)
    \/ HandleBackToMain
    \/ HandleConfirm /\ LoadsWithin(MaxLoads)
    \/ HandleCancel
    \/ \E apiPresent \in BOOLEAN :
          HandleLocalButtonClick(apiPresent) /\ Within(MaxChains)
    \/ \E ButtonType \in {"ND", "TEST", "HONBAN"}, apiPresent \in BOOLEAN :
          HandleButtonClick(ButtonType, apiPresent) /\ Within(MaxChains)
    \/ \E apiPresent \in BOOLEAN :
          HandleOpenFileClick(apiPresent) /\ Within(MaxChains)
    \/ \E chain \in BagToSet(chains), response \in Responses,
             createThrows \in BOOLEAN :
          TabQueryReturns(chain, response, createThrows)

Spec == Init /\ [][Next]_vars

(***************************************************************************)
(* ShobiButtons.HandleUrlProcessing called on its own, with every button   *)
(* type: the four of the rendered buttons and one that is none of them     *)
(***************************************************************************)
\* a button type other than 'ND', 'TEST', '本番' and 'ローカル'
OtherButton == "STAGING"

ButtonTypes == EnvButtons \cup {OtherButton}

InitResolve ==
    /\ LocalUrl \in StoreLocalUrls
    /\ ProjectBasePath = <<>>
    /\ PreferredEditor = "vscode"
    /\ IsLoading = FALSE
    /\ ErrorMessage = "null"
    /\ storage \in StoredSettings
    /\ loadsInFlight = 0
    /\ mounted = TRUE
    /\ currentView = "main"
    /\ result = Message("initial", <<>>, "")
    /\ isConfirmationModalOpen = FALSE
    /\ chains = EmptyBag
    /\ step = Ran("create")
    /\ effects = NoEffects
    /\ saves = EmptyBag
    /\ successMessage = FALSE

\* HandleUrlProcessing(ProcessedUrlPart, OriginalUrl, ButtonType), with the
\* ProcessedUrlPart GetCurrentTabUrl derives from OriginalUrl
HandleUrlProcessing(ButtonType, OriginalUrl, createThrows) ==
    LET snap     == [NoSnap EXCEPT !.LocalUrl = LocalUrl]
        response == [kind |-> "url", url |-> OriginalUrl]
        outcome  == EnvOutcome(ButtonType, snap, response, createThrows)
    IN  /\ result' = outcome.result
        /\ effects' = outcome.effects
        /\ step' = Step("HandleUrlProcessing", ButtonType, response,
                        createThrows, snap)
        /\ UNCHANGED <<storeVars, storage, saves, successMessage,
                       loadsInFlight, mounted, currentView,
                       isConfirmationModalOpen, chains>>

NextResolve ==
    \E ButtonType \in ButtonTypes, OriginalUrl \in Urls,
       createThrows \in BOOLEAN :
          HandleUrlProcessing(ButtonType, OriginalUrl, createThrows)

SpecResolve == InitResolve /\ [][NextResolve]_vars

(***************************************************************************)
(* Clicks made while earlier chains wait: the same handlers, one set of    *)
(* persisted settings, up to MaxOverlap chains waiting at a time           *)
(***************************************************************************)
InitOverlap ==
    /\ Init
    /\ storage.LocalUrl.value = LocalPlain

NextOverlap ==
    \/ Mount /\ LoadsWithin(MaxLoads)
    \/ LoadSettingsResolved
    \/ LoadSettingsRejected
    \/ HandleSettingsClick /\ LoadsWithin(MaxLoads)
    \/ HandleBackToMain
    \/ HandleConfirm /\ LoadsWithin(MaxLoads)
    \/ HandleCancel
    \/ \E apiPresent \in BOOLEAN :
          HandleLocalButtonClick(apiPresent) /\ Within(MaxOverlap)
    \/ \E ButtonType \in {"ND", "TEST", "HONBAN"}, apiPresent \in BOOLEAN :
          HandleButtonClick(ButtonType, apiPresent) /\ Within(MaxOverlap)
    \/ \E apiPresent \in BOOLEAN :
          HandleOpenFileClick(apiPresent) /\ Within(MaxOverlap)
    \/ \E chain \in BagToSet(chains), response \in Responses,
             createThrows \in BOOLEAN :
          TabQueryReturns(chain, response, createThrows)

SpecOverlap == InitOverlap /\ [][NextOverlap]_vars

(***************************************************************************)
(* SettingsPage: the form of the settings view over the store, with the    *)
(* two LoadSettings calls of AppContainer and SettingsPage in flight       *)
(***************************************************************************)
MaxPageLoads == 2

MaxPageSaves == 1

DotLocalhost == <<".", "l", "o", "c", "a", "l", "h", "o", "s", "t">>

Localhost == <<"l", "o", "c", "a", "l", "h", "o", "s", "t">>

\* SettingsFormSchema: min(1), and endsWith('.localhost') or 'localhost'
SettingsFormSchema(value) ==
    /\ Len(value) >= 1
    /\ \/ /\ Len(value) >= Len(DotLocalhost)
          /\ SubSeq(value, Len(value) - Len(DotLocalhost) + 1, Len(value))
               = DotLocalhost
       \/ value = Localhost

\* what the user submits in the LocalUrl field
FormValues == {LocalPlain, Localhost, LocalTrailingSlash, <<>>}

\* form.handleSubmit(OnSubmit): OnSubmit runs when the schema accepts the
\* value; the field and the submit button are disabled while IsLoading.
\* OnSubmit up to its await: setSuccessMessage(''), SetLocalUrl, SaveSettings
OnSubmit(values) ==
    /\ mounted
    /\ currentView = "settings"
    /\ ~IsLoading
    /\ SettingsFormSchema(values)
    /\ successMessage' = FALSE
    /\ LocalUrl' = values
    /\ SaveStart("SaveSettings", [Current EXCEPT !.LocalUrl = values], TRUE)
    /\ step' = Step("OnSubmit", "", NoResponse, FALSE,
                    [NoSnap EXCEPT !.LocalUrl = values])
    /\ effects' = NoEffects
    /\ UNCHANGED <<ProjectBasePath, PreferredEditor, mounted, currentView,
                   result, isConfirmationModalOpen, chains>>

\* the 3 s timer of OnSubmit fires: setSuccessMessage('')
SuccessMessageTimeout ==
    /\ currentView = "settings"
    /\ successMessage
    /\ successMessage' = FALSE
    /\ step' = Ran("SuccessMessageTimeout")
    /\ effects' = NoEffects
    /\ UNCHANGED <<storeVars, storage, saves, loadsInFlight, mounted,
                   currentView, result, isConfirmationModalOpen, chains>>

\* the 5 s timer of the ErrorMessage effect fires: ClearError()
ErrorMessageTimeout ==
    /\ currentView = "settings"
    /\ ErrorMessage # "null"
    /\ ErrorMessage' = "null"
    /\ step' = Ran("ErrorMessageTimeout")
    /\ effects' = NoEffects
    /\ UNCHANGED <<LocalUrl, ProjectBasePath, PreferredEditor, IsLoading,
                   storage, saves, successMessage, loadsInFlight, mounted,
                   currentView, result, isConfirmationModalOpen, chains>>

\* the step leaves at most limit Save* calls waiting
SavesWithin(limit) == BagCardinality(saves') <= limit

InitSettings ==
    /\ Init
    /\ storage.LocalUrl.value = LocalPlain \/ ~storage.LocalUrl.present

NextSettings ==
    \/ Mount /\ LoadsWithin(MaxPageLoads)
    \/ HandleSettingsClick /\ LoadsWithin(MaxPageLoads)
    \/ HandleBackToMain
    \/ LoadSettingsResolved
    \/ LoadSettingsRejected
    \/ \E values \in FormValues : OnSubmit(values) /\ SavesWithin(MaxPageSaves)
    \/ \E save \in BagToSet(saves) : SaveResolved(save)
    \/ \E save \in BagToSet(saves), error \in StorageErrors :
          SaveRejected(save, error)
    \/ SuccessMessageTimeout
    \/ ErrorMessageTimeout

SpecSettings == InitSettings /\ [][NextSettings]_vars

(***************************************************************************)
(* The functions of the settings store, called in any order                *)
(***************************************************************************)
MaxStoreOps == 2

\* the step leaves at most limit LoadSettings and Save* calls in flight
OpsWithin(limit) == loadsInFlight' + BagCardinality(saves') <= limit

\* the arguments the setters are called with
SetterUrls == {Localhost}

SetterPaths == {PathDotted}

SetterEditors == {"cursor"}

\* what chrome.storage.local.set rejects with
RejectedWith == {"permissions", "notAnError"}

SetLocalUrl(url) ==
    /\ LocalUrl' = url
    /\ step' = Ran("SetLocalUrl")
    /\ effects' = NoEffects
    /\ UNCHANGED <<ProjectBasePath, PreferredEditor, IsLoading, ErrorMessage,
                   storage, saves, successMessage, loadsInFlight, mounted,
                   currentView, result, isConfirmationModalOpen, chains>>

SetProjectBasePath(path) ==
    /\ ProjectBasePath' = path
    /\ step' = Ran("SetProjectBasePath")
    /\ effects' = NoEffects
    /\ UNCHANGED <<LocalUrl, PreferredEditor, IsLoading, ErrorMessage,
                   storage, saves, successMessage, loadsInFlight, mounted,
                   currentView, result, isConfirmationModalOpen, chains>>

SetPreferredEditor(editor) ==
    /\ PreferredEditor' = editor
    /\ step' = Ran("SetPreferredEditor")
    /\ effects' = NoEffects
    /\ UNCHANGED <<LocalUrl, ProjectBasePath, IsLoading, ErrorMessage,
                   storage, saves, successMessage, loadsInFlight, mounted,
                   currentView, result, isConfirmationModalOpen, chains>>

\* LoadSettings, called on the store
LoadSettings ==
    /\ LoadSettingsStart
    /\ step' = Ran("LoadSettings")
    /\ effects' = NoEffects
    /\ UNCHANGED <<mounted, currentView, result, isConfirmationModalOpen,
                   chains>>

\* a Save* function called on the store, up to its await
Save(op) ==
    /\ SaveStart(op, Current, FALSE)
    /\ step' = Ran(op)
    /\ effects' = NoEffects
    /\ UNCHANGED <<LocalUrl, ProjectBasePath, PreferredEditor, successMessage,
                   mounted, currentView, result, isConfirmationModalOpen,
                   chains>>

SaveSettings == Save("SaveSettings")

SaveLocalUrl == Save("SaveLocalUrl")

SaveProjectBasePath == Save("SaveProjectBasePath")

SavePreferredEditor == Save("SavePreferredEditor")

ClearError ==
    /\ ErrorMessage' = "null"
    /\ step' = Ran("ClearError")
    /\ effects' = NoEffects
    /\ UNCHANGED <<LocalUrl, ProjectBasePath, PreferredEditor, IsLoading,
                   storage, saves, successMessage, loadsInFlight, mounted,
                   currentView, result, isConfirmationModalOpen, chains>>

InitStore ==
    /\ Init
    /\ ~storage.LocalUrl.present

NextStore ==
    \/ \E url \in SetterUrls : SetLocalUrl(url)
    \/ \E path \in SetterPaths : SetProjectBasePath(path)
    \/ \E editor \in SetterEditors : SetPreferredEditor(editor)
    \/ LoadSettings /\ OpsWithin(MaxStoreOps)
    \/ LoadSettingsResolved
    \/ LoadSettingsRejected
    \/ SaveSettings /\ OpsWithin(MaxStoreOps)
    \/ SaveLocalUrl /\ OpsWithin(MaxStoreOps)
    \/ SaveProjectBasePath /\ OpsWithin(MaxStoreOps)
    \/ SavePreferredEditor /\ OpsWithin(MaxStoreOps)
    \/ \E save \in BagToSet(saves) : SaveResolved(save)
    \/ \E save \in BagToSet(saves), error \in RejectedWith :
          SaveRejected(save, error)
    \/ ClearError

SpecStore == InitStore /\ [][NextStore]_vars

(***************************************************************************)
(* Properties                                                              *)
(***************************************************************************)
NdExampleTarget == <<"h", "t", "t", "p", ":", "/", "/", "n", "d", ".", "w", "w", "w", ".", "s", "h", "o", "b", "i", "-", "u", ".", "l", "i", "c", "e", "n", "s", "e", "a", "c", "a", "d", "e", "m", "y", ".", "j", "p", "/", "a", "/", "b">>

ProdBareTarget == <<"h", "t", "t", "p", "s", ":", "/", "/", "w", "w", "w", ".", "s", "h", "o", "b", "i", "-", "u", ".", "a", "c", ".", "j", "p", "/">>

NdHttpTarget == <<"h", "t", "t", "p", ":", "/", "/", "n", "d", ".", "w", "w", "w", ".", "s", "h", "o", "b", "i", "-", "u", ".", "l", "i", "c", "e", "n", "s", "e", "a", "c", "a", "d", "e", "m", "y", ".", "j", "p", "/", "b", "/", "c">>

NdHostName == <<"n", "d", ".", "w", "w", "w", ".", "s", "h", "o", "b", "i", "-", "u", ".", "l", "i", "c", "e", "n", "s", "e", "a", "c", "a", "d", "e", "m", "y", ".", "j", "p">>

TestHostName == <<"t", "e", "s", "t", ".", "s", "h", "o", "b", "i", "-", "u", ".", "a", "c", ".", "j", "p">>

ProdHostName == <<"w", "w", "w", ".", "s", "h", "o", "b", "i", "-", "u", ".", "a", "c", ".", "j", "p">>

HttpsPrefix == <<"h", "t", "t", "p", "s", ":", "/", "/">>

HttpPrefix == <<"h", "t", "t", "p", ":", "/", "/">>

LocalhostName == <<"l", "o", "c", "a", "l", "h", "o", "s", "t">>

\* the path left of an empty string or of white space only
IsBlank(s) == \A i \in 1..Len(s) : s[i] = " "

\* 0-based index of the first character of the host: right after '://'
HostStart(url) == IndexOf(url, ":", 0) + 3

\* 0-based index of the first '/' that follows the host, -1 when none
HostSlash(url) == IndexOf(url, "/", HostStart(url))

\* everything after the first '/' that follows the host
PathAfterHost(url) ==
    IF HostSlash(url) = -1 THEN <<>> ELSE SubstringFrom(url, HostSlash(url) + 1)

HostNameOf(ButtonType) ==
    CASE ButtonType = "ND"     -> NdHostName
      [] ButtonType = "TEST"   -> TestHostName
      [] ButtonType = "HONBAN" -> ProdHostName

PrefixOf(ButtonType) ==
    IF ButtonType \in {"ND", "LOCAL"} THEN HttpPrefix ELSE HttpsPrefix

\* a click chain of an environment button has just run its callback on url
EnvResolved ==
    /\ step.op = "TabQueryReturns"
    /\ step.button \in EnvButtons
    /\ step.response.kind = "url"
    /\ step.response.url # <<>>

\* a click chain of the file button has just produced a file path
FileResolved ==
    /\ step.op = "TabQueryReturns"
    /\ step.button = "file"
    /\ result.kind \in {"vscodeOpened", "cursorOpened", "pathCopied"}

\* C1: for an https:// active-tab URL with a '/' after its host, ND, TEST
\* and HONBAN call chrome.tabs.create with exactly
\* <protocol>://<base host>/<everything after the first '/' after the host>,
\* the protocol being http for ND and https for TEST and HONBAN; for
\* https://example.com/a/b and ND that is
\* http://nd.www.shobi-u.licenseacademy.jp/a/b.
C1_HttpsRemap ==
    (/\ EnvResolved
     /\ step.button \in {"ND", "TEST", "HONBAN"}
     /\ StartsWith(step.response.url, HttpsPrefix)
     /\ HostSlash(step.response.url) # -1)
    => /\ effects.created =
            <<PrefixOf(step.button) \o HostNameOf(step.button) \o <<"/">>
                \o PathAfterHost(step.response.url)>>
       /\ (step.button = "ND" /\ step.response.url = UrlAB)
            => effects.created = <<NdExampleTarget>>

C1_Witness ==
    /\ EnvResolved
    /\ step.button = "ND"
    /\ step.response.url = UrlAB
    /\ effects.created = <<NdExampleTarget>>
    /\ result = Message("opened", NdExampleTarget, "")

\* C2: when the active-tab URL has no '/' at or after index 8, the remainder
\* is empty: the resolved URL is the protocol, the base host (for LOCAL the
\* stored LocalUrl) and one '/', nothing after it; for HONBAN it is
\* https://www.shobi-u.ac.jp/.
C2_EmptyRemainder ==
    (EnvResolved /\ IndexOf(step.response.url, "/", 8) = -1)
    => /\ effects.created =
            <<PrefixOf(step.button)
                \o (IF step.button = "LOCAL" THEN step.snap.LocalUrl
                    ELSE HostNameOf(step.button))
                \o <<"/">> >>
       /\ step.button = "HONBAN" => effects.created = <<ProdBareTarget>>

C2_Witness ==
    /\ EnvResolved
    /\ step.button = "HONBAN"
    /\ step.response.url = UrlBare
    /\ effects.created = <<ProdBareTarget>>

\* C3: for LOCAL the resolved URL is http:// + the trimmed stored LocalUrl
\* + '/' + remainder when the trimmed LocalUrl is not empty, and
\* http://localhost/ + remainder otherwise; white space around the stored
\* LocalUrl never shows in the resolved URL.
C3_LocalTrimmed ==
    (EnvResolved /\ step.button = "LOCAL")
    => effects.created =
          <<HttpPrefix
              \o (IF Trim(step.snap.LocalUrl) # <<>>
                  THEN Trim(step.snap.LocalUrl) ELSE LocalhostName)
              \o <<"/">> \o ProcessedUrlPart(step.response.url)>>

\* the part of a resolved URL after its '://'
AfterScheme(url) == SubstringFrom(url, HostStart(url))

\* C4: the resolved URL has exactly one '/' between host and path: the
\* first '/' after the scheme separator is not followed by another '/'.
C4_NoDoubleSlash ==
    EnvResolved
    => \A i \in 1..Len(effects.created) :
          LET rest  == AfterScheme(effects.created[i])
              slash == IndexOf(rest, "/", 0)
          IN  slash # -1 /\ (slash + 2 <= Len(rest) => rest[slash + 2] # "/")

\* C5: the normalized base host ends with exactly one '/', for every
\* selector and every stored LocalUrl.
C5_OneTrailingSlash ==
    EnvResolved
    => LET base == NormalizedBaseUrl(BaseUrl(step.button, step.snap.LocalUrl))
       IN  /\ EndsWith(base, "/")
           /\ ~EndsWith(SubSeq(base, 1, Len(base) - 1), "/")

\* C6: when the active-tab URL is empty, missing or not parseable as a URL,
\* an environment-button click ends in an error message, chrome.tabs.create
\* is not called and nothing is written to the clipboard.
C6_UnparseableFails ==
    (/\ step.op = "TabQueryReturns"
     /\ step.button \in EnvButtons
     /\ step.response.kind \in {"noUrl", "url"}
     /\ ~ParseUrl(step.response.url).ok)
    => /\ result.kind = "buttonError"
       /\ effects.created = <<>>
       /\ effects.copied = <<>>

\* the URL an environment button resolves to when the split is right
TrueTarget(ButtonType, localUrl, url) ==
    PrefixOf(ButtonType)
        \o NormalizedBaseUrl(BaseUrl(ButtonType, localUrl))
        \o PathAfterHost(url)

C8_BasePathRequired ==
    (step.op = "HandleOpenFileClick" /\ IsBlank(ProjectBasePath))
    => /\ result = Message("noBasePath", <<>>, "")
       /\ effects = NoEffects

C8_Witness ==
    /\ step.op = "HandleOpenFileClick"
    /\ ProjectBasePath = Blank
    /\ result.kind = "noBasePath"
    /\ effects = NoEffects

\* C9: for a non-empty ProjectBasePath and any active-tab URL, the path
\* MapUrlToFilePath produces starts with <ProjectBasePath>\_views\.
C9_RootedAtViews ==
    FileResolved
    => StartsWith(result.arg, step.snap.ProjectBasePath \o ViewsDir)

\* the path with only the extension of its last segment replaced by .tpl
LastSegmentTpl(projectBasePath, url) ==
    LET pathname == ParseUrl(url).pathname
        local    == ReplaceAll(SubstringFrom(pathname, 1), "/", "\\")
        segAt    == LastIndexOf(local, "\\") + 1
        segment  == SubstringFrom(local, segAt)
        dot      == LastIndexOf(segment, ".")
        stem     == IF dot = -1 THEN segment ELSE Substring(segment, 0, dot)
    IN  projectBasePath \o ViewsDir \o Substring(local, 0, segAt)
            \o stem \o TplExt

\* C10: the extension replacement acts on the last path segment only: the
\* text after its final '.' becomes .tpl, .tpl is appended when it has no
\* '.', and earlier segments are kept (a '.' in an earlier segment, as in
\* /v1.2/page, does not truncate the path).
C10_LastSegmentOnly ==
    (FileResolved /\ ParseUrl(step.response.url).ok)
    => result.arg = LastSegmentTpl(step.snap.ProjectBasePath, step.response.url)

DotTpl == <<".", "t", "p", "l">>

ErrorTplName == <<"\\", "_", "v", "i", "e", "w", "s", "\\", "e", "r", "r", "o", "r", ".", "t", "p", "l">>

VsCodePrefix == <<"v", "s", "c", "o", "d", "e", ":", "/", "/", "f", "i", "l", "e", "/">>

CursorPrefix == <<"c", "u", "r", "s", "o", "r", ":", "/", "/", "f", "i", "l", "e", "/">>

PlainExamplePath == <<"C", ":", "\\", "p", "_", "a", "p", "p", "\\", "_", "v", "i", "e", "w", "s", "\\", "a", "\\", "b", ".", "t", "p", "l">>

PlainErrorPath == <<"C", ":", "\\", "p", "_", "a", "p", "p", "\\", "_", "v", "i", "e", "w", "s", "\\", "e", "r", "r", "o", "r", ".", "t", "p", "l">>

VsCodeExampleUri == <<"v", "s", "c", "o", "d", "e", ":", "/", "/", "f", "i", "l", "e", "/", "C", ":", "/", "p", "_", "a", "p", "p", "/", "_", "v", "i", "e", "w", "s", "/", "a", "/", "b", ".", "t", "p", "l">>

\* s ends with the characters of suffix
HasSuffix(s, suffix) ==
    /\ Len(s) >= Len(suffix)
    /\ SubSeq(s, Len(s) - Len(suffix) + 1, Len(s)) = suffix

\* the callback of a file-button chain has run: MapUrlToFilePath was called
\* with the active-tab URL
FileMapped ==
    /\ step.op = "TabQueryReturns"
    /\ step.button = "file"
    /\ step.response.kind = "url"
    /\ step.response.url # <<>>

\* the path MapUrlToFilePath returned in the chain that has just run
MappedPath == MapUrlToFilePath(step.response.url, step.snap.ProjectBasePath)

\* C11: every path MapUrlToFilePath returns ends with '.tpl': for every
\* ProjectBasePath and active-tab URL, the parse-failure fallback and a URL
\* whose path is empty or ends with '/' included; so does the path shown in
\* the result message.
C11_EndsWithTpl ==
    FileMapped
    => /\ HasSuffix(MappedPath, DotTpl)
       /\ FileResolved => HasSuffix(result.arg, DotTpl)

C11_Witness ==
    /\ FileMapped
    /\ step.response.url = UrlDir
    /\ result.kind = "pathCopied"
    /\ HasSuffix(result.arg, DotTpl)

\* C12: when the active-tab URL cannot be parsed, MapUrlToFilePath returns
\* exactly <ProjectBasePath>\_views\error.tpl and the chain goes on to the
\* editor dispatch with that path: the editor's outcome is shown, not the
\* error status of the click handler (unless chrome.tabs.create throws).
C12_ParseFailureFallback ==
    /\ ~ParseUrl(UrlMalformed).ok
    /\ (FileMapped /\ ~ParseUrl(step.response.url).ok)
       => LET path   == step.snap.ProjectBasePath \o ErrorTplName
              editor == step.snap.PreferredEditor
          IN  /\ MappedPath = path
              /\ ~step.createThrows => result.kind # "fileError"
              /\ editor = "vscode"
                   => /\ effects.created = <<VsCodePrefix \o ReplaceAll(path, "\\", "/")>>
                      /\ ~step.createThrows => result = Message("vscodeOpened", path, "")
              /\ editor = "cursor"
                   => /\ effects.created = <<CursorPrefix \o ReplaceAll(path, "\\", "/")>>
                      /\ ~step.createThrows => result = Message("cursorOpened", path, "")
              /\ editor = "dreamweaver"
                   => /\ effects.copied = <<path>>
                      /\ result = Message("pathCopied", path, "")

C12_Witness ==
    /\ FileMapped
    /\ step.response.url = UrlMalformed
    /\ result = Message("vscodeOpened", PlainErrorPath, "")
    /\ effects.created # <<>>

\* C13: with PreferredEditor 'dreamweaver' the open-file action never calls
\* chrome.tabs.create; its only side effect is one clipboard write of the
\* file path as MapUrlToFilePath returned it, backslashes kept.
C13_DreamweaverCopiesOnly ==
    /\ (step.op = "TabQueryReturns" /\ step.button = "file"
          /\ step.snap.PreferredEditor = "dreamweaver")
       => /\ effects.created = <<>>
          /\ ~effects.alerted
          /\ effects.copied = IF FileMapped THEN <<MappedPath>> ELSE <<>>
          /\ (FileMapped /\ step.snap.ProjectBasePath = PathPlain
                /\ step.response.url = UrlAB)
               => effects.copied = <<PlainExamplePath>>
    /\ (step.op = "HandleOpenFileClick" /\ PreferredEditor = "dreamweaver")
       => effects.created = <<>> /\ effects.copied = <<>>

C13_Witness ==
    /\ FileMapped
    /\ step.snap.PreferredEditor = "dreamweaver"
    /\ step.response.url = UrlAB
    /\ effects.created = <<>>
    /\ effects.copied = <<PlainExamplePath>>
    /\ result = Message("pathCopied", PlainExamplePath, "")

\* C14: with PreferredEditor 'vscode' (resp. 'cursor') the open-file action
\* opens a tab at vscode://file/ (resp. cursor://file/) followed by the
\* resolved path with every backslash replaced by '/', and writes nothing
\* to the clipboard.
C14_EditorUri ==
    (FileMapped /\ step.snap.PreferredEditor \in {"vscode", "cursor"})
    => /\ effects.created =
            <<(IF step.snap.PreferredEditor = "vscode"
               THEN VsCodePrefix ELSE CursorPrefix)
                \o ReplaceAll(MappedPath, "\\", "/")>>
       /\ \A i \in 1..Len(effects.created[1]) : effects.created[1][i] # "\\"
       /\ effects.copied = <<>>
       /\ (step.snap.PreferredEditor = "vscode"
             /\ step.snap.ProjectBasePath = PathPlain
             /\ step.response.url = UrlAB)
            => effects.created = <<VsCodeExampleUri>>

C14_Witness ==
    /\ FileMapped
    /\ step.snap.PreferredEditor = "vscode"
    /\ step.response.url = UrlAB
    /\ effects.created = <<VsCodeExampleUri>>
    /\ effects.copied = <<>>
    /\ result = Message("vscodeOpened", PlainExamplePath, "")

\* C15: when the stored PreferredEditor is none of 'vscode', 'cursor' and
\* 'dreamweaver', the open-file action shows the 'unsupported editor'
\* message and does nothing: no tab is created, nothing is copied.
C15_UnsupportedEditor ==
    (step.op = "TabQueryReturns" /\ step.button = "file"
       /\ step.snap.PreferredEditor \notin {"vscode", "cursor", "dreamweaver"})
    => /\ effects.created = <<>>
       /\ effects.copied = <<>>
       /\ FileMapped
            => result = Message("unsupportedEditor", <<>>, step.snap.PreferredEditor)

C15_Witness ==
    /\ FileMapped
    /\ step.snap.PreferredEditor = "sublime"
    /\ storage.PreferredEditor = Key(TRUE, "sublime")
    /\ result = Message("unsupportedEditor", <<>>, "sublime")
    /\ effects.created = <<>>
    /\ effects.copied = <<>>

LocalExampleTarget == <<"h", "t", "t", "p", ":", "/", "/", "a", ".", "l", "o", "c", "a", "l", "h", "o", "s", "t", "/", "a", "/", "b">>

\* the settings a chain of ButtonType reads, taken from the store
SettingsRead(ButtonType) ==
    [LocalUrl        |-> IF ButtonType = "LOCAL" THEN LocalUrl ELSE <<>>,
     ProjectBasePath |-> IF ButtonType = "file" THEN ProjectBasePath ELSE <<>>,
     PreferredEditor |-> IF ButtonType = "file" THEN PreferredEditor ELSE ""]

\* C16: resolution has no hidden state.  A click on an environment button
\* or on the open-file button, and the rest of its chain, leave the settings
\* in the store and the persisted settings as they are; the chain reads the
\* settings of the store at the click and nothing else, and what it
\* dispatches is a function of the selector, those settings and the
\* active-tab URL alone, so that the same URL, selector and settings give
\* the same target again.
C16_NoHiddenState ==
    /\ [](step.op = "TabQueryReturns"
          => LET url     == step.response.url
                 editor  == step.snap.PreferredEditor
                 path    == MapUrlToFilePath(url, step.snap.ProjectBasePath)
                 dispatch ==
                     CASE step.response.kind # "url" \/ url = <<>> ->
                              <<<<>>, <<>>>>
                       [] step.button # "file" ->
                              <<<<FullUrl(step.button, step.snap.LocalUrl,
                                          ProcessedUrlPart(url))>>,
                                IF step.createThrows THEN <<>>
                                ELSE <<FullUrl(step.button, step.snap.LocalUrl,
                                               ProcessedUrlPart(url))>> >>
                       [] editor \in {"vscode", "cursor"} ->
                              <<<<EditorUri(editor, path)>>, <<>>>>
                       [] editor = "dreamweaver" ->
                              <<<<>>, <<path>>>>
                       [] OTHER ->
                              <<<<>>, <<>>>>
             IN  <<effects.created, effects.copied>> = dispatch)
    /\ [][step'.op \in {"HandleLocalButtonClick", "HandleButtonClick",
                        "HandleOpenFileClick", "TabQueryReturns"}
          => /\ UNCHANGED <<LocalUrl, ProjectBasePath, PreferredEditor, storage>>
             /\ effects'.queried
                  => /\ BagIn([button |-> step'.button,
                               snap |-> SettingsRead(step'.button)], chains')
                     /\ BagCardinality(chains') = BagCardinality(chains) + 1
         ]_vars

C16_Witness ==
    /\ EnvResolved
    /\ step.button = "LOCAL"
    /\ step.response.url = UrlAB
    /\ step.snap.LocalUrl = LocalPlain
    /\ LocalUrl = LocalPlain
    /\ storage.LocalUrl = Key(TRUE, LocalPlain)
    /\ effects.created = <<LocalExampleTarget>>

\* C17: each click's chain (loading message, tab query, resolution,
\* dispatch, result message) runs to completion before any step of the next
\* click's chain: no click starts a chain while another chain waits for its
\* tab query, and the chain of the most recent click is never finished
\* while the chain of an earlier click still waits, so that the result
\* displayed when all chains have finished is that of the most recent click.
C17_ChainsRunInTurn ==
    /\ [](BagCardinality(chains) <= 1)
    /\ [][(/\ effects.queried
           /\ step'.op = "TabQueryReturns"
           /\ step'.button = step.button
           /\ step'.snap = SettingsRead(step.button))
          => \A c \in BagToSet(chains') :
                c = [button |-> step'.button, snap |-> step'.snap]
         ]_vars

\* C18: LoadSettings is invoked once, at the mount of the popup: after the
\* mount no step starts another load from storage (every invocation adds
\* one to the loads in flight).
C18_LoadedOnceAtMount ==
    [][mounted => loadsInFlight' <= loadsInFlight]_vars

\* what LoadSettings is to leave in the store for a persisted key
Loaded(key, empty, default) ==
    IF ~key.present \/ key.value = empty THEN default ELSE key.value

\* C19: after a successful LoadSettings every setting whose key is absent
\* from storage, or empty, has its default in the store (LocalUrl '',
\* ProjectBasePath '', PreferredEditor 'vscode') and every key present with
\* a non-empty value is copied as it is.
C19_DefaultsAfterLoad ==
    step.op = "LoadSettingsResolved"
    => /\ LocalUrl = Loaded(storage.LocalUrl, <<>>, <<>>)
       /\ ProjectBasePath = Loaded(storage.ProjectBasePath, <<>>, <<>>)
       /\ PreferredEditor = Loaded(storage.PreferredEditor, "", "vscode")

C19_Witness ==
    /\ step.op = "LoadSettingsResolved"
    /\ ~storage.LocalUrl.present
    /\ storage.ProjectBasePath = Key(TRUE, <<>>)
    /\ ~storage.PreferredEditor.present
    /\ LocalUrl = <<>>
    /\ ProjectBasePath = <<>>
    /\ PreferredEditor = "vscode"

\* the handler that ran last met a failure of the tab query: the
\* chrome.tabs API absent, a rejected query, no active tab, or an active tab
\* without URL
TabQueryFailed ==
    \/ step.response.kind \in {"apiAbsent", "rejected", "noTabs", "noUrl"}
    \/ step.op = "TabQueryReturns" /\ step.response.kind = "url"
          /\ step.response.url = <<>>

\* C20: every failure of the tab query is caught at the click handler: the
\* result shown is the handler's error message, no tab is created and
\* nothing is copied; the popup stays usable: the failing step changes
\* nothing that a later click reads (settings, view, modal), and the click
\* handlers of the main view still run (from the settings view, opened
\* while the query was pending, the way back to them does).
C20_TabQueryFailureCaught ==
    /\ [](TabQueryFailed
          => /\ result = Message(IF step.button = "file" THEN "fileError"
                                                         ELSE "buttonError",
                                 <<>>, step.button)
             /\ effects.created = <<>>
             /\ effects.copied = <<>>
             /\ effects.alerted = (step.button # "file")
             /\ currentView = "main"
                  => /\ \A ButtonType \in {"ND", "TEST", "HONBAN"} :
                           ENABLED HandleButtonClick(ButtonType, TRUE)
                     /\ ENABLED HandleLocalButtonClick(TRUE)
                     /\ ENABLED HandleOpenFileClick(TRUE)
             /\ currentView = "settings" => ENABLED HandleBackToMain)
    /\ [][TabQueryFailed'
          => UNCHANGED <<storeVars, storage, loadsInFlight, mounted,
                         currentView, isConfirmationModalOpen>>
         ]_vars

C20_Witness ==
    /\ step.op = "TabQueryReturns"
    /\ step.button = "ND"
    /\ step.response.kind = "rejected"
    /\ result = Message("buttonError", <<>>, "ND")
    /\ effects.created = <<>>
    /\ effects.copied = <<>>

\* the displayed result is one of the two loading messages
Loading(message) == message.kind \in {"urlLoading", "fileLoading"}

\* C21: after a click the displayed result is the loading message for as
\* long as the tab query of that click is pending, and it leaves the loading
\* message when the query resolves or rejects.  Stated on the states reached
\* when a tab query settles: the result is then a success or error message
\* exactly when no query is left pending.
C21_LoadingWhilePending ==
    step.op = "TabQueryReturns"
    => IF chains = EmptyBag THEN ~Loading(result) ELSE Loading(result)

UnknownPrefix == <<"h", "t", "t", "p", "s", ":", "/", "/", "u", "n", "k", "n", "o", "w", "n", "/">>

\* C22: for a button type other than 'ND', 'TEST', '本番' and 'ローカル',
\* HandleUrlProcessing resolves to https://unknown/ followed by the
\* remainder; the protocol of the resolved URL is http exactly for 'ND' and
\* 'ローカル' and https for every other button type.
C22_UnknownButton ==
    step.op = "HandleUrlProcessing"
    => /\ Len(effects.created) = 1
       /\ step.button \notin {"ND", "TEST", "HONBAN", "LOCAL"}
            => effects.created =
                  <<UnknownPrefix \o ProcessedUrlPart(step.response.url)>>
       /\ StartsWith(effects.created[1], HttpPrefix)
            <=> step.button \in {"ND", "LOCAL"}
       /\ StartsWith(effects.created[1], HttpsPrefix)
            <=> step.button \notin {"ND", "LOCAL"}

C22_Witness ==
    /\ step.op = "HandleUrlProcessing"
    /\ step.button = OtherButton
    /\ step.response.url = UrlAB
    /\ effects.created = <<<<"h", "t", "t", "p", "s", ":", "/", "/", "u", "n", "k", "n", "o", "w", "n", "/", "a", "/", "b">>>>

\* C23: a click on the LOCAL button while the LocalUrl of the store is empty
\* or white space only opens the confirmation modal and does nothing else:
\* no tab query, no tab created, no clipboard write, the result message as
\* it was; confirming the modal leaves the view on 'settings' with the
\* modal closed, cancelling leaves it on 'main' with the modal closed.
C23_ModalOnBlankLocalUrl ==
    /\ [][(/\ \/ step'.op = "HandleLocalButtonClick"
              \/ step'.op = "HandleButtonClick" /\ step'.button = "LOCAL"
           /\ IsBlank(LocalUrl))
          => /\ isConfirmationModalOpen'
             /\ effects' = NoEffects
             /\ UNCHANGED <<result, chains, currentView, storeVars, storage>>
         ]_vars
    /\ [](step.op = "HandleConfirm"
          => currentView = "settings" /\ ~isConfirmationModalOpen)
    /\ [](step.op = "HandleCancel"
          => currentView = "main" /\ ~isConfirmationModalOpen)

C23_Witness ==
    /\ step.op = "HandleLocalButtonClick"
    /\ LocalUrl = Blank
    /\ isConfirmationModalOpen
    /\ effects = NoEffects
    /\ chains = EmptyBag
    /\ result = Message("initial", <<>>, "")

\* C24: in a successful environment-button click the URL given to
\* chrome.tabs.create, the string written to the clipboard and the URL in
\* the success message are one string; when chrome.tabs.create throws, the
\* clipboard is not written and the failure message is shown instead of the
\* success message.
C24_OneTargetString ==
    EnvResolved
    => /\ Len(effects.created) = 1
       /\ IF step.createThrows
          THEN /\ effects.copied = <<>>
               /\ result = Message("failed", effects.created[1], "")
          ELSE /\ effects.copied = effects.created
               /\ result = Message("opened", effects.created[1], "")

C24_Witness ==
    /\ EnvResolved
    /\ step.button = "ND"
    /\ step.response.url = UrlAB
    /\ step.createThrows
    /\ effects.created = <<NdExampleTarget>>
    /\ effects.copied = <<>>
    /\ result = Message("failed", NdExampleTarget, "")

\* C25: IsLoading is true in every state in which a LoadSettings or Save*
\* storage operation is in flight, and false when none is, also when two
\* operations overlap.
C25_LoadingWhileInFlight ==
    IsLoading <=> (loadsInFlight > 0 \/ saves # EmptyBag)

\* C26: once every storage operation has completed after a successful
\* submit of the settings form, the in-memory LocalUrl, the persisted
\* LocalUrl and the submitted value are equal, also when a LoadSettings
\* started before the submit completes after it.
C26_SubmitConverges ==
    (/\ step.op = "SaveResolved"
     /\ step.response.kind = "submit"
     /\ loadsInFlight = 0
     /\ saves = EmptyBag)
    => /\ LocalUrl = step.snap.LocalUrl
       /\ storage.LocalUrl = Key(TRUE, step.snap.LocalUrl)

\* C27: when chrome.storage.local.set rejects during a submit of the
\* settings form, the success message is not displayed, the ErrorMessage of
\* the store is set and IsLoading is false.
C27_FailedSaveShowsFailure ==
    (step.op = "SaveRejected" /\ step.response.kind = "submit")
    => /\ ~successMessage
       /\ ErrorMessage # "null"
       /\ ~IsLoading

\* the keys a Save* function is to write
OwnKeys(op) ==
    CASE op = "SaveSettings" -> {"LocalUrl", "ProjectBasePath", "PreferredEditor"}
      [] op = "SaveLocalUrl" -> {"LocalUrl"}
      [] op = "SaveProjectBasePath" -> {"ProjectBasePath"}
      [] op = "SavePreferredEditor" -> {"PreferredEditor"}

\* storage.local holds the three values of settings, each key present
Persisted(settings) == [k \in DOMAIN settings |-> Key(TRUE, settings[k])]

\* C28: SaveLocalUrl, SaveProjectBasePath and SavePreferredEditor write
\* their own key with its in-memory value and leave the other two persisted
\* keys as they are, SaveSettings writes the three in-memory values; no
\* Save* function changes the in-memory LocalUrl, ProjectBasePath or
\* PreferredEditor, at its start or when the write settles; and a
\* LoadSettings that reads what a successful SaveSettings wrote sets the
\* three values that were saved.
C28_SaveFrame ==
    /\ [][step'.op \in SaveOps
          => /\ UNCHANGED <<LocalUrl, ProjectBasePath, PreferredEditor, storage>>
             /\ saves' = saves (+) SetToBag({
                    [op |-> step'.op,
                     data |-> [k \in OwnKeys(step'.op) |-> Current[k]],
                     submit |-> FALSE]})
         ]_vars
    /\ [][step'.op = "SaveResolved"
          => /\ UNCHANGED <<LocalUrl, ProjectBasePath, PreferredEditor>>
             /\ \A k \in SettingsKeys :
                   storage'[k] = IF k \in OwnKeys(step'.button)
                                 THEN Key(TRUE, step'.snap[k])
                                 ELSE storage[k]
         ]_vars
    /\ [][step'.op = "SaveRejected"
          => UNCHANGED <<LocalUrl, ProjectBasePath, PreferredEditor, storage>>
         ]_vars
    /\ [][(step'.op = "LoadSettingsResolved" /\ storage = Persisted(Current))
          => UNCHANGED <<LocalUrl, ProjectBasePath, PreferredEditor>>
         ]_vars
    /\ [][(/\ step.op = "SaveResolved"
           /\ step.button = "SaveSettings"
           /\ step'.op = "LoadSettingsResolved")
          => Current' = step.snap
         ]_vars

C28_Witness ==
    /\ step.op = "SaveResolved"
    /\ step.button = "SaveLocalUrl"
    /\ LocalUrl = Localhost
    /\ ProjectBasePath = PathDotted
    /\ PreferredEditor = "cursor"
    /\ storage.LocalUrl = Key(TRUE, Localhost)
    /\ storage.ProjectBasePath = Key(TRUE, <<>>)
    /\ ~storage.PreferredEditor.present

\* C29: when chrome.storage.local.get rejects, LoadSettings leaves LocalUrl,
\* ProjectBasePath and PreferredEditor as they are, sets ErrorMessage to the
\* load-failure text and IsLoading to false; every start of a LoadSettings
\* or Save* call sets ErrorMessage to null.
C29_LoadFailure ==
    /\ [][step'.op = "LoadSettingsRejected"
          => /\ UNCHANGED <<LocalUrl, ProjectBasePath, PreferredEditor, storage>>
             /\ ErrorMessage' = "loadFailed"
             /\ ~IsLoading'
         ]_vars
    /\ [](step.op \in SaveOps \cup {"LoadSettings"}
          => ErrorMessage = "null" /\ IsLoading)

C29_Witness ==
    /\ step.op = "LoadSettingsRejected"
    /\ LocalUrl = Localhost
    /\ ProjectBasePath = PathDotted
    /\ PreferredEditor = "cursor"
    /\ ErrorMessage = "loadFailed"
    /\ ~IsLoading
    /\ saves = EmptyBag

=============================================================================
